---- MODULE Spec2Model ----
(***************************************************************************)
(* Model of skextremes/models/classic.py: the constructor of the GEV and   *)
(* Gumbel models (_Base.__init__), their fit step (_fit), the delta and    *)
(* bootstrap confidence-interval estimators and the pass-through queries.  *)
(*                                                                         *)
(* Numbers.  Python floats are modelled as records [nan, v]: v is an       *)
(* integer, nan marks IEEE not-a-number (every comparison with it is       *)
(* false).  ci is held in hundredths (ci = 0.05 is 5).  The third-party    *)
(* numerical routines (scipy.stats, numpy, numdifftools, lmoments3) are    *)
(* not part of the repository: what they return is an input of the step    *)
(* that calls them, drawn from a small set, or an integer stand-in that    *)
(* keeps the routine's domain (nan outside it) and its dependence on each  *)
(* argument.                                                               *)
(***************************************************************************)
EXTENDS Integers, Sequences, FiniteSets, TLC

VARIABLES
    pc,        \* position of the constructor call / lifecycle of the object
    cls,       \* class being constructed: "GEV" or "Gumbel"
    args,      \* the arguments of the __init__ call
    self,      \* the object's attribute dictionary (attribute name -> value)
    raised,    \* exception that left __init__ ("none" when none did)
    calls,     \* methods invoked so far, in order
    boot,      \* calls of func made so far by _bsci: the refit and the row
    ret        \* value returned by the last pass-through query

vars == <<pc, cls, args, self, raised, calls, boot, ret>>

----------------------------------------------------------------------------
(* Bounds of the model *)

\* number of bootstrap replicates drawn by _bsci (the code asks for 500)
NSamples == 3
\* number of points kept of the return-period grid arange(0.1, 500.1, 0.1)
GridLen == 3
\* distance between the grid points kept, in tenths of a year
GridStride == 25

(* Program constants *)

\* first point of the grid, in tenths of a year (0.1)
GridStart == 1
\* ci is held in hundredths: the open interval (0, 1) is 0 < ci < CiOne
CiOne == 100

----------------------------------------------------------------------------
(* Floats *)

F(v) == [nan |-> FALSE, v |-> v]
NaN == [nan |-> TRUE, v |-> 0]

FAdd(a, b) == IF a.nan \/ b.nan THEN NaN ELSE F(a.v + b.v)
FSub(a, b) == IF a.nan \/ b.nan THEN NaN ELSE F(a.v - b.v)
FMul(a, b) == IF a.nan \/ b.nan THEN NaN ELSE F(a.v * b.v)
\* a <= b on floats: false as soon as one side is nan
FLeq(a, b) == ~a.nan /\ ~b.nan /\ a.v <= b.v

\* largest r with r*r <= n, for n >= 0
ISqrt(n) == CHOOSE r \in 0..n : r * r <= n /\ (r + 1) * (r + 1) > n
\* numpy.sqrt: nan for a negative argument
FSqrt(a) == IF a.nan \/ a.v < 0 THEN NaN ELSE F(ISqrt(a.v))

\* largest k with 2^k <= n, for n >= 1
RECURSIVE ILog2(_)
ILog2(n) == IF n <= 1 THEN 0 ELSE 1 + ILog2(n \div 2)

----------------------------------------------------------------------------
(* Attribute dictionary of the object *)

NoAttrs == [x \in {} |-> 0]
Has(obj, name) == name \in DOMAIN obj
SetAttr(obj, name, val) ==
    [k \in DOMAIN obj \cup {name} |-> IF k = name THEN val ELSE obj[k]]

\* Python None, and the truth value of a ci_method argument
None == "None"
Truthy(x) == x # None /\ x # ""

----------------------------------------------------------------------------
(* Inputs of the constructor call *)

Classes == {"GEV", "Gumbel"}
\* samples handed in as data
Samples == {<<10, 12, 11>>, <<10, 10>>}
\* fit_method: the three accepted selectors and one that is not accepted
FitMethodArgs == {"mle", "mom", "lmoments", "pwm"}
\* ci in hundredths: negative, 0 (no CI), two values inside (0,1), exactly 1
CiArgs == {-5, 0, 5, 90, 100}
\* ci_method: missing, the two estimators, and an unknown name
CiMethodArgs == {None, "delta", "bootstrap", "jackknife"}
\* return_periods (years): not supplied, empty, or a list
NoPeriods == [given |-> FALSE, seq |-> <<>>]
ReturnPeriodArgs ==
    {NoPeriods, [given |-> TRUE, seq |-> <<>>], [given |-> TRUE, seq |-> <<5, 50>>]}
\* frec: events per year
FrecArgs == {1, 2}

(* What the parameter estimators called by _fit may hand back *)
ShapeVals == {-1, 0, 1}
LocVals == {10}
ScaleVals == {0, 2}
EstimatorResults == [c : ShapeVals, loc : LocVals, scale : ScaleVals]

----------------------------------------------------------------------------
(* scipy frozen distributions *)

\* _st.genextreme(c, loc=, scale=)
genextreme(c, loc, scale) ==
    [dist |-> "genextreme", c |-> c, loc |-> loc, scale |-> scale]
\* _st.gumbel_r(loc=, scale=)
gumbel_r(loc, scale) == [dist |-> "gumbel_r", loc |-> loc, scale |-> scale]

\* Stand-in for the Gumbel reduced variate -log(-log(1 - q)) at q = num/den,
\* defined for 0 < q < 1.
RedVar(num, den) == ILog2(den \div num)

\* Stand-in for (1 - exp(-c*x))/c, the GEV quantile of reduced variate x
\* (x itself when c = 0): its expansion to second order, x - c*x*x/2.
GevQuantile(c, x) == IF c = 0 THEN x ELSE (x * (2 - c * x)) \div 2

\* distr.isf(q) at q = num/den, for num, den > 0.  scipy answers nan when q
\* is above 1 or when the scale is not positive.  (The inputs of the model
\* keep q away from 1, where the answer is infinite.)
Isf(d, num, den) ==
    IF d.scale <= 0 \/ num > den THEN NaN
    ELSE IF d.dist = "gumbel_r" THEN F(d.loc + d.scale * RedVar(num, den))
    ELSE F(d.loc + d.scale * GevQuantile(d.c, RedVar(num, den)))

----------------------------------------------------------------------------
(* The fit step *)

\* GEV._fit: the three branches store the estimator's (shape, location,
\* scale); then c, loc, scale and the frozen distribution are derived.
GEV_fit(obj, p) ==
    LET params ==
            IF obj.fit_method = "mle"
            THEN [shape |-> p.c, location |-> p.loc, scale |-> p.scale]
            ELSE IF obj.fit_method = "lmoments"
            THEN [shape |-> p.c, location |-> p.loc, scale |-> p.scale]
            ELSE [shape |-> p.c, location |-> p.loc, scale |-> p.scale]
        o1 == SetAttr(obj, "params", params)
        o2 == SetAttr(o1, "c", params.shape)
        o3 == SetAttr(o2, "loc", params.location)
        o4 == SetAttr(o3, "scale", params.scale)
    IN  SetAttr(o4, "distr", genextreme(o4.c, o4.loc, o4.scale))

\* Gumbel._fit: 'mle' and 'lmoments' store the literal 0 as shape, 'mom'
\* stores the first component handed back by _gum_momfit.
Gumbel_fit(obj, p) ==
    LET params ==
            IF obj.fit_method = "mle"
            THEN [shape |-> 0, location |-> p.loc, scale |-> p.scale]
            ELSE IF obj.fit_method = "lmoments"
            THEN [shape |-> 0, location |-> p.loc, scale |-> p.scale]
            ELSE [shape |-> p.c, location |-> p.loc, scale |-> p.scale]
        o1 == SetAttr(obj, "params", params)
        o2 == SetAttr(o1, "c", params.shape)
        o3 == SetAttr(o2, "loc", params.location)
        o4 == SetAttr(o3, "scale", params.scale)
    IN  SetAttr(o4, "distr", gumbel_r(o4.loc, o4.scale))

----------------------------------------------------------------------------
(* _Base.__init__, step by step *)

\* no query has returned yet
NoReturn == [method |-> "none"]

Init ==
    /\ pc = "idle"
    /\ cls = "GEV"
    /\ args = [fit_method |-> "mle", ci |-> 0, ci_method |-> None,
               return_periods |-> NoPeriods, frec |-> 1]
    /\ self = NoAttrs
    /\ raised = "none"
    /\ calls = <<>>
    /\ boot = <<>>
    /\ ret = NoReturn

\* GEV(data, ...) or Gumbel(data, ...) is called: data and the units are
\* stored (lines 36-38).
Call(k, d, fm, ci, cm, rp, fr) ==
    /\ pc = "idle"
    /\ cls' = k
    /\ args' = [fit_method |-> fm, ci |-> ci, ci_method |-> cm,
                return_periods |-> rp, frec |-> fr]
    /\ self' = SetAttr(SetAttr(SetAttr(NoAttrs, "data", d),
                               "ev_unit", ""), "block_unit", "")
    /\ pc' = "fit_method"
    /\ UNCHANGED <<raised, calls, boot, ret>>

\* Variant of CheckFitMethod: an unknown selector falls back to 'mle'
CheckFitMethod_defaulting ==
    /\ pc = "fit_method"
    /\ self' = SetAttr(self, "fit_method",
                       IF args.fit_method \in {"mle", "mom", "lmoments"}
                       THEN args.fit_method ELSE "mle")
    /\ pc' = "fit"
    /\ UNCHANGED <<cls, args, raised, calls, boot, ret>>

\* lines 41-49: the fit-method selector is stored or rejected
CheckFitMethod ==
    /\ pc = "fit_method"
    /\ IF args.fit_method \in {"mle", "mom", "lmoments"}
       THEN /\ self' = SetAttr(self, "fit_method", args.fit_method)
            /\ pc' = "fit"
            /\ UNCHANGED raised
       ELSE /\ raised' = "ValueError"
            /\ pc' = "raised"
            /\ UNCHANGED self
    /\ UNCHANGED <<cls, args, calls, boot, ret>>

\* line 53: self._fit(), with the estimator handing back p
Fit(p) ==
    /\ pc = "fit"
    /\ calls' = Append(calls, "_fit")
    /\ self' = IF cls = "Gumbel" THEN Gumbel_fit(self, p) ELSE GEV_fit(self, p)
    /\ pc' = "return_values"
    /\ UNCHANGED <<cls, args, raised, boot, ret>>

\* line 53: self._fit(), with the estimator raising (lmoments3 rejects
\* invalid L-moments, scipy's fit reports a failed optimisation)
FitRaises ==
    /\ pc = "fit"
    /\ calls' = Append(calls, "_fit")
    /\ raised' = "FitError"
    /\ pc' = "raised"
    /\ UNCHANGED <<cls, args, self, boot, ret>>

\* Variant of ReturnValues: the return levels are taken at 1/period, as
\* for yearly data, whatever frec the caller gave
ReturnValues_yearly ==
    /\ pc = "return_values"
    /\ LET rp == args.return_periods
           o1 == SetAttr(self, "frec", args.frec)
           periods == IF rp.given /\ rp.seq # <<>> THEN rp.seq ELSE <<>>
           values == [i \in 1..Len(periods) |-> Isf(o1.distr, 1, periods[i])]
       IN  self' = SetAttr(SetAttr(o1, "return_periods", periods),
                           "return_values", values)
    /\ pc' = "ci"
    /\ UNCHANGED <<cls, args, raised, calls, boot, ret>>

\* lines 56-63: frec, return_periods and return_values
ReturnValues ==
    /\ pc = "return_values"
    /\ LET rp == args.return_periods
           o1 == SetAttr(self, "frec", args.frec)
           periods == IF rp.given /\ rp.seq # <<>> THEN rp.seq ELSE <<>>
           values == [i \in 1..Len(periods) |->
                         Isf(o1.distr, o1.frec, periods[i])]
       IN  self' = SetAttr(SetAttr(o1, "return_periods", periods),
                           "return_values", values)
    /\ pc' = "ci"
    /\ UNCHANGED <<cls, args, raised, calls, boot, ret>>

\* lines 66-69: ci is stored or rejected
CheckCi ==
    /\ pc = "ci"
    /\ IF args.ci = 0 \/ (0 < args.ci /\ args.ci < CiOne)
       THEN /\ self' = SetAttr(self, "ci", args.ci)
            /\ pc' = "ci_method"
            /\ UNCHANGED raised
       ELSE /\ raised' = "ValueError"
            /\ pc' = "raised"
            /\ UNCHANGED self
    /\ UNCHANGED <<cls, args, calls, boot, ret>>

\* Variant of CiMethodAccepted: 'delta' accepted under every fit method
CiMethodAccepted_deltaAnyFit(fit_method, ci_method) ==
    Truthy(ci_method) /\ ci_method \in {"delta", "bootstrap"}

\* the three accepting branches of lines 71-85
CiMethodAccepted(fit_method, ci_method) ==
    \/ Truthy(ci_method) /\ fit_method = "mle"
                         /\ ci_method \in {"delta", "bootstrap"}
    \/ Truthy(ci_method) /\ fit_method = "lmoments"
                         /\ ci_method \in {"bootstrap"}
    \/ Truthy(ci_method) /\ fit_method = "mom"
                         /\ ci_method \in {"bootstrap"}

\* Variant of CheckCiMethod: the ci_method is checked and used whether or
\* not ci is 0
CheckCiMethod_ignoringCi ==
    /\ pc = "ci_method"
    /\ IF Truthy(args.ci_method) /\ args.ci_method \in {"delta", "bootstrap"}
       THEN /\ self' = SetAttr(self, "ci_method", args.ci_method)
            /\ calls' = Append(calls, "_ci")
            /\ pc' = "_ci"
            /\ UNCHANGED raised
       ELSE /\ raised' = "ValueError"
            /\ pc' = "raised"
            /\ UNCHANGED <<self, calls>>
    /\ UNCHANGED <<cls, args, boot, ret>>

\* lines 70-89: with a non-zero ci the ci_method is stored and _ci called,
\* or the combination is rejected; with ci = 0 __init__ returns
CheckCiMethod ==
    /\ pc = "ci_method"
    /\ IF self.ci # 0
       THEN IF CiMethodAccepted(args.fit_method, args.ci_method)
            THEN /\ self' = SetAttr(self, "ci_method", args.ci_method)
                 /\ calls' = Append(calls, "_ci")
                 /\ pc' = "_ci"
                 /\ UNCHANGED raised
            ELSE /\ raised' = "ValueError"
                 /\ pc' = "raised"
                 /\ UNCHANGED <<self, calls>>
       ELSE /\ pc' = "done"
            /\ UNCHANGED <<self, raised, calls>>
    /\ UNCHANGED <<cls, args, boot, ret>>

\* GEV._ci (inherited by Gumbel), lines 787-790
Ci ==
    /\ pc = "_ci"
    /\ \/ /\ self.ci_method = "delta"
          /\ calls' = Append(calls, "_ci_delta")
          /\ pc' = "_ci_delta"
       \/ /\ self.ci_method = "bootstrap"
          /\ calls' = Append(calls, "_ci_bootstrap")
          /\ pc' = "_ci_bootstrap"
    /\ UNCHANGED <<cls, args, self, raised, boot, ret>>

----------------------------------------------------------------------------
(* The return-period grid T = arange(0.1, 500.1, 0.1), in tenths of a year *)

GridT(i) == GridStart + (i - 1) * GridStride
GridIdx == 1..GridLen
\* self.frec / T[i] as the fraction num/den
GridNum(frec) == frec * 10
\* self.distr.isf(self.frec / T) over the grid
GridIsf(d, frec) == [i \in GridIdx |-> Isf(d, GridNum(frec), GridT(i))]

----------------------------------------------------------------------------
(* The delta method *)

\* Stand-in for _st.norm.ppf(1 - ci/2), positive for every ci inside (0,1):
\* 2 for ci up to 0.05 (1.96), 1 above
NormPpf(ci) == IF ci <= 5 THEN 2 ELSE 1

\* What inverting the numerical Hessian may hand back: the diagonal of the
\* variance-covariance matrix (off-diagonal entries are taken as 0).  A
\* Hessian that is not positive definite gives a negative entry.
VarVals == {-1, 4}
VarCovars(dim) == [1..dim -> VarVals]

\* gradZ of lines 705-708 at grid point i, for the negated shape c # 0:
\* nan as soon as sT[i] = -log(1 - frec/T[i]) is the log of a negative number
\* (T[i] < frec); x stands for -log(sT[i]).  The first component is the
\* derivative of scale*GevQuantile(-c, x) in c, to the order GevQuantile keeps.
GradZ_gev(c, scale, frec, i) ==
    IF GridNum(frec) > GridT(i) THEN <<NaN, F(1), NaN>>
    ELSE LET x == RedVar(GridNum(frec), GridT(i))
         IN  <<F((scale * x * x * (3 + 2 * c * x)) \div 6),
               F(1),
               F(GevQuantile(-c, x))>>

\* gradZ of line 733: [1, -log(sT[i])]
GradZ_gumbel(frec, i) ==
    IF GridNum(frec) > GridT(i) THEN <<F(1), NaN>>
    ELSE <<F(1), F(RedVar(GridNum(frec), GridT(i)))>>

\* _np.dot(_np.dot(gradZ, varcovar), gradZ.T) for a diagonal varcovar
RECURSIVE QuadForm(_, _)
QuadForm(g, V) ==
    IF g = <<>> THEN F(0)
    ELSE FAdd(FMul(FMul(Head(g), Head(g)), F(Head(V))),
              QuadForm(Tail(g), Tail(V)))

\* Variant of HessPoint: the branch follows the class of the distribution
HessPoint_byClass(obj) ==
    LET c == -obj.c
    IN  IF obj.distr.dist = "genextreme" THEN <<c, obj.loc, obj.scale>>
        ELSE <<obj.loc, obj.scale>>

\* the point the Hessian is taken at: [c, loc, scale] with the negated shape
\* when that is non-zero, [loc, scale] otherwise (lines 648, 677, 685, 721)
HessPoint(obj) ==
    LET c == -obj.c
    IN  IF c # 0 THEN <<c, obj.loc, obj.scale>> ELSE <<obj.loc, obj.scale>>

\* (estimate - q*se, estimate + q*se)
Symmetric(est, q, se) == <<FSub(F(est), FMul(F(q), se)),
                           FAdd(F(est), FMul(F(q), se))>>

\* Variant of ci_delta: the shape interval is built around the local c
ci_delta_negatedCentre(obj, V) ==
    LET c == -obj.c
        scale == obj.scale
        q == NormPpf(obj.ci)
        sT2 == GridIsf(obj.distr, obj.frec)
        se == [j \in 1..Len(V) |-> FSqrt(F(V[j]))]
        gradZ(i) == IF c # 0 THEN GradZ_gev(c, scale, obj.frec, i)
                    ELSE GradZ_gumbel(obj.frec, i)
        half(i) == FMul(F(q), FSqrt(QuadForm(gradZ(i), V)))
        params_ci ==
            IF c # 0
            THEN [shape |-> Symmetric(c, q, se[1]),
                  location |-> Symmetric(obj.loc, q, se[2]),
                  scale |-> Symmetric(obj.scale, q, se[3])]
            ELSE [shape |-> <<F(0), F(0)>>,
                  location |-> Symmetric(obj.loc, q, se[1]),
                  scale |-> Symmetric(obj.scale, q, se[2])]
        ci_Tu == [i \in GridIdx |-> FAdd(sT2[i], half(i))]
        ci_Td == [i \in GridIdx |-> FSub(sT2[i], half(i))]
        o1 == SetAttr(obj, "params_ci", params_ci)
        o2 == SetAttr(o1, "_se", se)
        o3 == SetAttr(o2, "_ci_Tu", ci_Tu)
    IN  SetAttr(o3, "_ci_Td", ci_Td)

\* GEV._ci_delta (inherited by Gumbel) once varcovar, with diagonal V, has
\* been obtained at HessPoint: params_ci, _se, _ci_Tu and _ci_Td
ci_delta(obj, V) ==
    LET c == -obj.c
        scale == obj.scale
        q == NormPpf(obj.ci)
        sT2 == GridIsf(obj.distr, obj.frec)
        se == [j \in 1..Len(V) |-> FSqrt(F(V[j]))]
        gradZ(i) == IF c # 0 THEN GradZ_gev(c, scale, obj.frec, i)
                    ELSE GradZ_gumbel(obj.frec, i)
        half(i) == FMul(F(q), FSqrt(QuadForm(gradZ(i), V)))
        params_ci ==
            IF c # 0
            THEN [shape |-> Symmetric(obj.c, q, se[1]),
                  location |-> Symmetric(obj.loc, q, se[2]),
                  scale |-> Symmetric(obj.scale, q, se[3])]
            ELSE [shape |-> <<F(0), F(0)>>,
                  location |-> Symmetric(obj.loc, q, se[1]),
                  scale |-> Symmetric(obj.scale, q, se[2])]
        ci_Tu == [i \in GridIdx |-> FAdd(sT2[i], half(i))]
        ci_Td == [i \in GridIdx |-> FSub(sT2[i], half(i))]
        o1 == SetAttr(obj, "params_ci", params_ci)
        o2 == SetAttr(o1, "_se", se)
        o3 == SetAttr(o2, "_ci_Tu", ci_Tu)
    IN  SetAttr(o3, "_ci_Td", ci_Td)

\* self._ci_delta() runs to its end
CiDelta(V) ==
    /\ pc = "_ci_delta"
    /\ Len(V) = Len(HessPoint(self))
    /\ self' = ci_delta(self, V)
    /\ pc' = "done"
    /\ UNCHANGED <<cls, args, raised, calls, boot, ret>>

\* self._ci_delta() with a singular Hessian: _np.linalg.inv raises at line
\* 685 or 721, before any attribute is written, and nothing catches it
CiDeltaRaises ==
    /\ pc = "_ci_delta"
    /\ raised' = "LinAlgError"
    /\ pc' = "raised"
    /\ UNCHANGED <<cls, args, self, calls, boot, ret>>

----------------------------------------------------------------------------
(* The parametric bootstrap *)

\* What the refit of a synthetic sample (_st.genextreme.fit, lines 762-765)
\* may hand back
RefitResults == [c : {0, 1}, loc : LocVals, scale : {1, 2}]

\* The synthetic sample of lines 758-761, kept as the call that draws it
Rvs(obj) == [dist |-> "genextreme", c |-> obj.c, loc |-> obj.loc,
             scale |-> obj.scale, size |-> Len(obj.data)]
\* The refit of lines 762-765, kept as the call: the distribution fitted,
\* the parameters left free, the sample and the starting point
Refit(obj) == [dist |-> "genextreme", free |-> {"c", "loc", "scale"},
               sample |-> Rvs(obj), start |-> <<obj.c, obj.loc, obj.scale>>]

\* func of lines 757-771 for a refit that hands back r: the row
\* (c, loc, scale, return levels over the grid)
func(obj, r) ==
    <<F(r.c), F(r.loc), F(r.scale)>>
        \o GridIsf(genextreme(r.c, r.loc, r.scale), obj.frec)

\* numpy's sort order on floats: nan after every number
FLess(a, b) == ~a.nan /\ (b.nan \/ a.v < b.v)
RECURSIVE InsertSorted(_, _)
InsertSorted(s, x) ==
    IF s = <<>> THEN <<x>>
    ELSE IF FLess(x, Head(s)) THEN <<x>> \o s
    ELSE <<Head(s)>> \o InsertSorted(Tail(s), x)
RECURSIVE SortFloats(_)
SortFloats(s) ==
    IF s = <<>> THEN <<>>
    ELSE InsertSorted(SortFloats(SubSeq(s, 1, Len(s) - 1)), s[Len(s)])

\* a divided by b, rounded to the nearest integer (a >= 0, b > 0)
RoundDiv(a, b) == (2 * a + b) \div (2 * b)

\* alpha used by _bsci when the caller passes none (0.05)
BsciDefaultAlpha == 5

\* _bsci (skextremes.utils.bootstrap_ci) once statfunction has produced the
\* rows: for each column the alpha/2 and 1 - alpha/2 percentiles over the
\* rows; out[0] holds the lower and out[1] the upper percentiles.
bsci(rows, alpha) ==
    LET n == Len(rows)
        lo == RoundDiv((n - 1) * alpha, 2 * CiOne)
        hi == RoundDiv((n - 1) * (2 * CiOne - alpha), 2 * CiOne)
        column(j) == SortFloats([k \in 1..n |-> rows[k][j]])
        width == Len(rows[1])
    IN  <<[j \in 1..width |-> column(j)[lo + 1]],
          [j \in 1..width |-> column(j)[hi + 1]]>>

\* out[r, j] and out[r, j:] with Python's indices from 0
At(out, r, j) == out[r + 1][j + 1]
From(out, r, j) == SubSeq(out[r + 1], j + 1, Len(out[r + 1]))

\* lines 774-780: what _ci_bootstrap stores once _bsci has returned out
ci_bootstrap(obj, out) ==
    LET o1 == SetAttr(obj, "_ci_Td", From(out, 0, 3))
        o2 == SetAttr(o1, "_ci_Tu", From(out, 1, 3))
        params_ci == [shape |-> <<At(out, 0, 0), At(out, 1, 0)>>,
                      location |-> <<At(out, 0, 1), At(out, 1, 1)>>,
                      scale |-> <<At(out, 0, 2), At(out, 1, 3)>>]
    IN  SetAttr(o2, "params_ci", params_ci)

\* the accumulation table: the rows func has returned so far
Rows(b) == [k \in 1..Len(b) |-> b[k].row]

\* Variant of BootstrapReplicate: the refit is unpacked into the model's
\* own c, loc and scale instead of into locals of func
BootstrapReplicate_refitInPlace(r) ==
    /\ pc = "_ci_bootstrap"
    /\ Len(boot) < NSamples
    /\ boot' = Append(boot, [call |-> Refit(self), row |-> func(self, r)])
    /\ self' = SetAttr(SetAttr(SetAttr(self, "c", r.c), "loc", r.loc),
                       "scale", r.scale)
    /\ UNCHANGED <<pc, cls, args, raised, calls, ret>>

\* _bsci calls func once more; the refit hands back r
BootstrapReplicate(r) ==
    /\ pc = "_ci_bootstrap"
    /\ Len(boot) < NSamples
    /\ boot' = Append(boot, [call |-> Refit(self), row |-> func(self, r)])
    /\ UNCHANGED <<pc, cls, args, self, raised, calls, ret>>

\* _bsci calls func once more and the refit raises: nothing catches it
BootstrapReplicateRaises ==
    /\ pc = "_ci_bootstrap"
    /\ Len(boot) < NSamples
    /\ raised' = "FitError"
    /\ pc' = "raised"
    /\ boot' = <<>>
    /\ UNCHANGED <<cls, args, self, calls, ret>>

\* _bsci returns (called at line 774 without alpha) and lines 775-780 store
\* the intervals
BootstrapStore ==
    /\ pc = "_ci_bootstrap"
    /\ Len(boot) = NSamples
    /\ self' = ci_bootstrap(self, bsci(Rows(boot), BsciDefaultAlpha))
    /\ boot' = <<>>
    /\ pc' = "done"
    /\ UNCHANGED <<cls, args, raised, calls, ret>>

----------------------------------------------------------------------------
(* The pass-through queries of a constructed model, lines 102-177 *)

QueryArgs == {10, 12}

\* self.distr.<method>(x), kept as the call on the frozen distribution
Delegate(obj, method, x) == [method |-> method, distr |-> obj.distr, x |-> x]

pdf(x) ==
    /\ pc = "done"
    /\ ret' = Delegate(self, "pdf", x)
    /\ UNCHANGED <<pc, cls, args, self, raised, calls, boot>>

cdf(x) ==
    /\ pc = "done"
    /\ ret' = Delegate(self, "cdf", x)
    /\ UNCHANGED <<pc, cls, args, self, raised, calls, boot>>

ppf(x) ==
    /\ pc = "done"
    /\ ret' = Delegate(self, "ppf", x)
    /\ UNCHANGED <<pc, cls, args, self, raised, calls, boot>>

stats(x) ==
    /\ pc = "done"
    /\ ret' = Delegate(self, "stats", x)
    /\ UNCHANGED <<pc, cls, args, self, raised, calls, boot>>

----------------------------------------------------------------------------

\* a caller constructs a model with some arguments
Construct ==
    /\ pc = "idle"
    /\ \E k \in Classes, d \in Samples, fm \in FitMethodArgs, ci \in CiArgs,
          cm \in CiMethodArgs, rp \in ReturnPeriodArgs, fr \in FrecArgs :
          Call(k, d, fm, ci, cm, rp, fr)

Next ==
    \/ Construct
    \/ CheckFitMethod
    \/ \E p \in EstimatorResults : Fit(p)
    \/ FitRaises
    \/ ReturnValues
    \/ CheckCi
    \/ CheckCiMethod
    \/ Ci
    \/ \E V \in VarCovars(2) \cup VarCovars(3) : CiDelta(V)
    \/ CiDeltaRaises
    \/ \E r \in RefitResults : BootstrapReplicate(r)
    \/ BootstrapReplicateRaises
    \/ BootstrapStore
    \/ \E x \in QueryArgs : pdf(x) \/ cdf(x) \/ ppf(x) \/ stats(x)

Spec == Init /\ [][Next]_vars

----------------------------------------------------------------------------
(* The negative log-likelihood GEV._nnlf, the function numdifftools         *)
(* differentiates: evaluated on its own, for points theta around a sample.  *)

RECURSIVE Exp2(_)
\* stand-in for exp: 2^k, rounded down to 0 below 2^0
Exp2(k) == IF k < 0 THEN 0 ELSE IF k = 0 THEN 1 ELSE 2 * Exp2(k - 1)

RECURSIVE SumSeq(_)
\* _np.sum
SumSeq(q) == IF q = <<>> THEN 0 ELSE Head(q) + SumSeq(Tail(q))

\* expr of line 626 times scale (scale > 0): the sign of each entry is the
\* sign of 1 + c*((x - loc)/scale)
ExprNum(x, c, loc, scale) == [i \in 1..Len(x) |-> scale + c * (x[i] - loc)]

\* the point is outside the support: some entry of expr is not positive
Infeasible(x, c, loc, scale) ==
    \E i \in 1..Len(x) : ExprNum(x, c, loc, scale)[i] <= 0

\* Lines 626-629, c # 0 and scale > 0.  No test of expr comes before the
\* logarithm: _np.log of a negative entry is nan (a warning, no exception)
\* and so are the sum and the result; an entry that is exactly 0 gives
\* -inf in the logarithm, which for c = 1 meets the +inf of 0**(-1/c) and
\* for c = -1 the factor 1 + 1/c = 0, nan both times (the shapes evaluated
\* here are -1 and 1).  Otherwise the sum of the three terms, with ILog2
\* for log and Exp2 for exp.
NnlfGev(x, c, loc, scale) ==
    LET num == ExprNum(x, c, loc, scale)
        logs == [i \in 1..Len(x) |-> ILog2(num[i]) - ILog2(scale)]
        pows == [i \in 1..Len(x) |-> Exp2((0 - logs[i]) \div c)]
    IN  IF Infeasible(x, c, loc, scale) THEN NaN
        ELSE F(Len(x) * ILog2(scale) + ((c + 1) * SumSeq(logs)) \div c
               + SumSeq(pows))

\* Lines 631-634, the shape = 0 formula, scale > 0
NnlfGumbel(x, loc, scale) ==
    LET expr == [i \in 1..Len(x) |-> (x[i] - loc) \div scale]
        exps == [i \in 1..Len(x) |-> Exp2(0 - expr[i])]
    IN  F(Len(x) * ILog2(scale) + SumSeq(expr) + SumSeq(exps))

\* GEV._nnlf(theta) on the data x, lines 613-634: theta is (c, loc, scale)
\* or (loc, scale) with c = 0; _np.log(scale) is nan for a negative scale,
\* and a zero scale ends in nan as well (-inf from the logarithm against
\* +inf from the division)
nnlf(x, theta) ==
    LET c == IF Len(theta) = 3 THEN theta[1] ELSE 0
        loc == IF Len(theta) = 3 THEN theta[2] ELSE theta[1]
        scale == IF Len(theta) = 3 THEN theta[3] ELSE theta[2]
    IN  IF scale <= 0 THEN NaN
        ELSE IF c # 0 THEN NnlfGev(x, c, loc, scale)
        ELSE NnlfGumbel(x, loc, scale)

\* the points the function is evaluated at
ThetaLocs == {9, 10, 11, 12}
ThetaScales == {1, 2, 3}
Thetas == {<<c, loc, scale>> : c \in ShapeVals, loc \in ThetaLocs,
                                scale \in ThetaScales}
          \cup {<<loc, scale>> : loc \in ThetaLocs, scale \in ThetaScales}

\* a fitted object and a point theta handed to self._nnlf
NnlfInit ==
    /\ pc = "_nnlf"
    /\ cls \in Classes
    /\ \E th \in Thetas : args = [theta |-> th]
    /\ \E d \in Samples : self = SetAttr(NoAttrs, "data", d)
    /\ raised = "none"
    /\ calls = <<"_nnlf">>
    /\ boot = <<>>
    /\ ret = NoReturn

\* self._nnlf(theta) returns
NnlfReturn ==
    /\ pc = "_nnlf"
    /\ ret' = [method |-> "_nnlf", value |-> nnlf(self.data, args.theta)]
    /\ pc' = "returned"
    /\ UNCHANGED <<cls, args, self, raised, calls, boot>>

NnlfNext == NnlfReturn

NnlfSpec == NnlfInit /\ [][NnlfNext]_vars

----------------------------------------------------------------------------
(* Vocabulary of the properties *)

Called(m) == \E i \in 1..Len(calls) : calls[i] = m
InCall == pc # "idle"
FitMethodValid == args.fit_method \in {"mle", "mom", "lmoments"}
CiInside == 0 < args.ci /\ args.ci < CiOne
CiValid == args.ci = 0 \/ CiInside
\* __init__ has gone past the checks of lines 66-89
PastCiChecks == Has(self, "ci") /\ pc # "ci_method"
NoCiEstimatorRan ==
    ~Called("_ci") /\ ~Called("_ci_delta") /\ ~Called("_ci_bootstrap")
NoCiResults ==
    ~Has(self, "params_ci") /\ ~Has(self, "_ci_Td") /\ ~Has(self, "_ci_Tu")

\* C1: a call whose fit_method is outside {mle, mom, lmoments} never gets
\* past the selector check: _fit is not invoked, no fit_method is stored (no
\* default takes its place), and the only way on is the ValueError.
C1_InvalidFitMethodRejected ==
    (InCall /\ ~FitMethodValid) =>
        /\ pc \in {"fit_method", "raised"}
        /\ pc = "raised" => raised = "ValueError"
        /\ calls = <<>>
        /\ ~Has(self, "fit_method")
        /\ ~Has(self, "params")

C1_Witness ==
    pc = "raised" /\ raised = "ValueError" /\ args.fit_method = "pwm"

\* C2: whenever the constructor has rejected its configuration with a
\* ValueError, neither the fit step nor the return-value computation has
\* run before that rejection.
C2_ConfigErrorBeforeFit ==
    (pc = "raised" /\ raised = "ValueError") =>
        (~Called("_fit") /\ ~Has(self, "return_values"))

\* C3: with ci inside (0,1) and the checks of lines 70-89 passed or failed:
\* 'delta' goes on to _ci_delta only under 'mle', 'bootstrap' goes on to
\* _ci_bootstrap under each of the three fit methods, and every other
\* combination (delta without mle, no ci_method, an unknown ci_method) is a
\* ValueError with no CI estimator run and no CI result stored.
C3_CiMethodCombinations ==
    (PastCiChecks /\ CiInside) =>
        IF args.ci_method = "delta" /\ args.fit_method = "mle"
        THEN /\ raised # "ValueError"
             /\ Called("_ci")
             /\ pc # "_ci" => Called("_ci_delta")
             /\ ~Called("_ci_bootstrap")
        ELSE IF args.ci_method = "bootstrap"
        THEN /\ raised # "ValueError"
             /\ Called("_ci")
             /\ pc # "_ci" => Called("_ci_bootstrap")
             /\ ~Called("_ci_delta")
        ELSE /\ pc = "raised"
             /\ raised = "ValueError"
             /\ NoCiEstimatorRan
             /\ NoCiResults

C3_Witness ==
    /\ pc = "done"
    /\ args.fit_method = "lmoments"
    /\ args.ci_method = "bootstrap"
    /\ CiInside
    /\ Has(self, "params_ci")

\* C4: with ci = 0 the ci_method plays no part: once the selector is
\* accepted the call can only fail inside the fit, it returns right after
\* ci is stored, no CI estimator is invoked and no CI result is created.
C4_NoCiWhenCiZero ==
    (InCall /\ args.ci = 0 /\ FitMethodValid) =>
        /\ NoCiEstimatorRan
        /\ NoCiResults
        /\ ~Has(self, "ci_method")
        /\ pc = "raised" => raised = "FitError"
        /\ PastCiChecks => pc = "done"
        /\ pc = "done" => calls = <<"_fit">>

C4_Witness ==
    /\ pc = "done"
    /\ args.ci = 0
    /\ args.ci_method = "jackknife"
    /\ Has(self, "params")

\* C5: a Gumbel model reports shape 0 (params['shape'] and c) after the
\* fit, for each fit method and whatever the estimator handed back.
C5_GumbelShapeZero ==
    (cls = "Gumbel" /\ Has(self, "params")) =>
        (self.params.shape = 0 /\ self.c = 0)

\* C6: whenever a Gumbel model holds confidence intervals, computed by the
\* delta method or by the bootstrap, its shape interval is (0, 0).
C6_GumbelShapeCiZero ==
    (cls = "Gumbel" /\ Has(self, "params_ci")) =>
        self.params_ci.shape = <<F(0), F(0)>>

\* lower <= estimate <= upper
Brackets(interval, est) == FLeq(interval[1], est) /\ FLeq(est, interval[2])

\* C7: whenever confidence intervals have been computed, each parameter and
\* each return level of the grid lies between its lower and upper bound.
C7_IntervalsBracketEstimates ==
    Has(self, "params_ci") =>
        /\ Brackets(self.params_ci.shape, F(self.c))
        /\ Brackets(self.params_ci.location, F(self.loc))
        /\ Brackets(self.params_ci.scale, F(self.scale))
        /\ \A i \in GridIdx :
              Brackets(<<self._ci_Td[i], self._ci_Tu[i]>>,
                       GridIsf(self.distr, self.frec)[i])

\* C8: an exception raised inside a CI estimator does not cost the caller
\* the fitted model: the constructor still returns the object.
C8_CiFailureKeepsModel ==
    (Called("_ci") /\ raised # "none") => pc = "done"

\* C9: a model whose construction succeeded has a positive scale, in
\* params, in scale and in its distribution.
C9_ScalePositive ==
    pc = "done" =>
        (self.scale > 0 /\ self.params.scale > 0 /\ self.distr.scale > 0)

\* the fitted point estimate and the data it was fitted to
PointEstimate(obj) ==
    <<obj.params, obj.c, obj.loc, obj.scale, obj.distr, obj.data>>

\* C10: the point estimate appears in the step that runs _fit, and once the
\* fit step has written it no later step
\* (the CI estimators, each bootstrap replicate, pdf, cdf, ppf, stats)
\* changes params, c, loc, scale, distr or data, and return_values stays
\* as computed.
C10_PointEstimateFrozen ==
    [][/\ Has(self, "distr") => PointEstimate(self') = PointEstimate(self)
       /\ (~Has(self, "distr") /\ Has(self', "distr")) =>
              (pc = "fit" /\ calls' = Append(calls, "_fit"))
       /\ Has(self, "return_values") =>
              self'.return_values = self.return_values]_vars

C10_Witness ==
    /\ pc = "done"
    /\ Has(self, "params_ci")
    /\ Called("_ci_bootstrap")
    /\ ret.method = "ppf"

\* C11: once return_values is stored: when a non-empty return_periods was
\* supplied, return_periods is that sequence and return_values has its
\* length and order, entry i being distr.isf(frec / return_periods[i]) for
\* the caller's frec on the fitted distribution; otherwise both are empty.
\* The CI steps that may follow leave this as it is.
C11_ReturnValuesMatchPeriods ==
    Has(self, "return_values") =>
        /\ self.frec = args.frec
        /\ IF args.return_periods.given /\ Len(args.return_periods.seq) > 0
           THEN /\ self.return_periods = args.return_periods.seq
                /\ Len(self.return_values) = Len(args.return_periods.seq)
                /\ \A i \in 1..Len(args.return_periods.seq) :
                      self.return_values[i] =
                          Isf(self.distr, args.frec,
                              args.return_periods.seq[i])
           ELSE self.return_periods = <<>> /\ self.return_values = <<>>

C11_Witness ==
    /\ pc = "done"
    /\ Has(self, "params_ci")
    /\ args.frec = 2
    /\ Len(self.return_values) = 2
    /\ ~self.return_values[1].nan
    /\ self.return_values[1] # self.return_values[2]

\* the step in which _bsci returns and _ci_bootstrap stores its results
BootstrapReturns == pc = "_ci_bootstrap" /\ pc' = "done"

\* C12: the intervals stored by the bootstrap are, parameter by parameter,
\* the (lower, upper) percentiles of that parameter's own column of the
\* table (shape 0, location 1, scale 2), and the return-level bounds are the
\* percentiles of columns 3 onward.
C12_OwnColumnPercentiles ==
    [][BootstrapReturns =>
          LET out == bsci(Rows(boot), BsciDefaultAlpha)
          IN  /\ self'.params_ci.shape = <<At(out, 0, 0), At(out, 1, 0)>>
              /\ self'.params_ci.location = <<At(out, 0, 1), At(out, 1, 1)>>
              /\ self'.params_ci.scale = <<At(out, 0, 2), At(out, 1, 2)>>
              /\ self'._ci_Td = From(out, 0, 3)
              /\ self'._ci_Tu = From(out, 1, 3)]_vars

\* C13: the intervals stored by the bootstrap are the ci/2 and 1 - ci/2
\* percentiles of the replicates for the ci given to the constructor.
C13_BootstrapUsesCallerCi ==
    [][BootstrapReturns =>
          self' = ci_bootstrap(self, bsci(Rows(boot), self.ci))]_vars

\* C14: every replicate draws a sample of the size of the data from the
\* fitted distribution and refits, from the fitted parameters, the family of
\* the model: a Gumbel with no free shape for a Gumbel model, a GEV with
\* its three parameters free for a GEV model.
C14_ReplicateRefitsOwnFamily ==
    \A k \in 1..Len(boot) :
        LET call == boot[k].call
        IN  /\ call.sample.size = Len(self.data)
            /\ <<call.sample.c, call.sample.loc, call.sample.scale>> =
                   <<self.c, self.loc, self.scale>>
            /\ call.start = <<self.c, self.loc, self.scale>>
            /\ IF cls = "Gumbel"
               THEN call.dist = "gumbel_r" /\ call.free = {"loc", "scale"}
               ELSE call.dist = "genextreme"
                    /\ call.free = {"c", "loc", "scale"}

\* the point handed to _nnlf is a 3-vector with a non-zero shape
GevPoint == Len(args.theta) = 3 /\ args.theta[1] # 0
\* +infinity, which no evaluation of the model produces
IsPosInf(a) == Has(a, "inf")

\* C15: _nnlf at a 3-vector with shape # 0 returns +infinity, not nan, when
\* some z_i is not strictly positive, and a finite value (that of the
\* formula) when every z_i is positive; it never raises.
C15_InfeasibleGivesInfinity ==
    (pc = "returned" /\ GevPoint) =>
        LET th == args.theta
        IN  /\ raised = "none"
            /\ IF Infeasible(self.data, th[1], th[2], th[3])
               THEN ~ret.value.nan /\ IsPosInf(ret.value)
               ELSE ret.value = NnlfGev(self.data, th[1], th[2], th[3])
                    /\ ~ret.value.nan

\* C16: _ci_delta leaves c and params as they are; the negated shape is
\* only the first coordinate of the point the Hessian is taken at; and with
\* a non-zero shape the interval stored as params_ci['shape'] has c in its
\* middle: c - lower and upper - c are both q times the standard error of
\* the shape (nan when that standard error is nan).
C16_ShapeSignKeptInternal ==
    [][pc = "_ci_delta" =>
          /\ self'.c = self.c
          /\ self'.params = self.params
          /\ (pc' = "done" /\ self.c # 0) =>
                LET lower == self'.params_ci.shape[1]
                    upper == self'.params_ci.shape[2]
                    h == FMul(F(NormPpf(self.ci)), self'._se[1])
                IN  /\ HessPoint(self) = <<-self.c, self.loc, self.scale>>
                    /\ FSub(F(self.c), lower) = h
                    /\ FSub(upper, F(self.c)) = h]_vars

C16_Witness ==
    /\ pc = "done"
    /\ Called("_ci_delta")
    /\ Has(self, "params_ci")
    /\ self.c = 1
    /\ self.params.shape = 1
    /\ ~self.params_ci.shape[1].nan
    /\ self.params_ci.shape[1].v < 1
    /\ self.params_ci.shape[1].v + self.params_ci.shape[2].v = 2

\* C17: when _ci_delta stores its results the branch taken is that of the
\* fitted shape, which is 0 for every Gumbel model.  Shape 0: the Hessian
\* point is (loc, scale), where _nnlf is the shape = 0 formula, there are
\* two standard errors, the shape interval is (0, 0) and the return-level
\* bounds are the return levels -/+ q*sqrt(g V g') with g = (1, -log sT).
\* Shape not 0: the Hessian point is (-c, loc, scale) and there are three
\* standard errors.  Both bound vectors have one entry per grid point.
C17_DeltaBranchByShape ==
    [][(pc = "_ci_delta" /\ pc' = "done") =>
          LET q == NormPpf(self.ci)
              sT2 == GridIsf(self.distr, self.frec)
          IN  /\ cls = "Gumbel" => self.c = 0
              /\ Len(self'._ci_Tu) = GridLen
              /\ Len(self'._ci_Td) = GridLen
              /\ nnlf(self.data, <<self.loc, self.scale>>) =
                    IF self.scale <= 0 THEN NaN
                    ELSE NnlfGumbel(self.data, self.loc, self.scale)
              /\ IF self.c = 0
                 THEN /\ Len(self'._se) = 2
                      /\ self'.params_ci.shape = <<F(0), F(0)>>
                      /\ \E V \in VarCovars(2) :
                            /\ self'._se = [j \in 1..2 |-> FSqrt(F(V[j]))]
                            /\ \A i \in GridIdx :
                                  LET g == GradZ_gumbel(self.frec, i)
                                      h == FMul(F(q), FSqrt(QuadForm(g, V)))
                                  IN  /\ self'._ci_Tu[i] = FAdd(sT2[i], h)
                                      /\ self'._ci_Td[i] = FSub(sT2[i], h)
                 ELSE Len(self'._se) = 3]_vars

C17_Witness ==
    /\ pc = "done"
    /\ Called("_ci_delta")
    /\ cls = "GEV"
    /\ self.c = 0
    /\ Has(self, "_se")
    /\ Len(self._se) = 2
    /\ self.params_ci.shape = <<F(0), F(0)>>
    /\ ~self._ci_Tu[GridLen].nan
    /\ self._ci_Td[GridLen] # self._ci_Tu[GridLen]

====
